---- MODULE Spec2Model ----
(***************************************************************************)
(* State-machine model of the HTTP agent of sigs.k8s.io/release-utils      *)
(* (package http): the single-request operations with their retry loops    *)
(* and the group operations that fan requests out under a throttler.       *)
(*                                                                         *)
(* The agent source modelled is the revision that retries through          *)
(* retry.Do (src/unnamed/part_000).  Its loops "for i := range urls"       *)
(* capture i in the task closure without a copy, so the revision is built  *)
(* with per-iteration loop variables (Go >= 1.22), which its tests rely on *)
(* as well (src/unnamed/part_001:417-422 uses tc inside parallel subtests).*)
(* The earlier revision (src/http/agent.go:332, 372) copies i per iteration *)
(* by hand, with the same effect.  The throttler and retry.Do are not part  *)
(* of the sources at hand; they are modelled from their documented          *)
(* behaviour.                                                               *)
(*                                                                         *)
(* Three specifications share the variables: SpecGroup is the dispatch of  *)
(* GetRequestGroup and PostRequestGroup; SpecRequest is one single request *)
(* (the *Request methods, Get, Post, Head, GetToWriter, PostToWriter);     *)
(* SpecRead is the walk GetGroup, PostGroup and the ToWriterGroup methods  *)
(* make over the responses a dispatch returned.  SpecAgent is SpecRequest  *)
(* and SpecRead together: every operation that reads a response body.      *)
(***************************************************************************)
EXTENDS Integers, Sequences, FiniteSets, TLC

\* ---------------------------------------------------------------- bounds
MaxUrls == 3
MaxWorkers == 3
MaxRetries == 2
MaxWriters == 3
MaxWait == 3
MaxAgents == 2
MaxLiveUrls == 2

\* ------------------------------------------------------- values and types
NoResponse == [nil |-> TRUE]
NoError == [kind |-> "nil"]

URLError == [kind |-> "url.Error"]
OtherError == [kind |-> "error"]

DefaultRetries == 3
DefaultMaxParallel == 5
\* Durations are in seconds.
DefaultWaitTime == 2
DefaultMaxWaitTime == 60
DefaultTimeout == 3

StatusOK == 200
StatusMultipleChoices == 300
StatusNotFound == 404
StatusTooManyRequests == 429
StatusInternalServerError == 500
StatusNotImplemented == 501

\* A response of the transport: the URL it was requested for, the number of
\* the transport call that produced it, and its status code.
Response(u, c, s) == [url |-> u, call |-> c, status |-> s]

\* What an AgentImplementation may answer to one call: a response with a
\* status, or none, and an error, or none.
Answer(s, e) == [has |-> TRUE, status |-> s, err |-> e]
Failure(e) == [has |-> FALSE, status |-> 0, err |-> e]

Replies ==
    { Answer(StatusOK, NoError),
      Answer(StatusMultipleChoices, NoError),
      Answer(StatusNotFound, NoError),
      Answer(StatusTooManyRequests, NoError),
      Answer(StatusInternalServerError, NoError),
      Answer(StatusNotImplemented, NoError),
      Answer(StatusNotFound, OtherError),
      Failure(URLError),
      Failure(OtherError),
      Failure(NoError) }

\* What the transport answers to the calls of a group dispatch: success, an
\* HTTP error status, a failure without a response and a failure with one.
GroupReplies ==
    { Answer(StatusOK, NoError),
      Answer(StatusInternalServerError, NoError),
      Answer(StatusNotFound, OtherError),
      Failure(OtherError) }

\* The (response, error) pair the transport returns for reply r to call
\* number c on URL u.
Outcome(u, c, r) ==
    [resp |-> IF r.has THEN Response(u, c, r.status) ELSE NoResponse,
     err |-> r.err]

NoOutcome == [resp |-> NoResponse, err |-> NoError]

GroupOps == {"GetRequestGroup", "PostRequestGroup"}
RequestOps == {"GetRequest", "PostRequest", "HeadRequest"}
WrapperOps == {"Get", "Post", "Head"}
SingleOps == RequestOps \cup WrapperOps
WriterOps == {"GetToWriter", "PostToWriter"}
ArrayGroupOps == {"GetGroup", "PostGroup"}
WriterGroupOps == {"GetToWriterGroup", "PostToWriterGroup"}
ReadGroupOps == ArrayGroupOps \cup WriterGroupOps

\* The HTTP method of a single-request operation.
Method(o) ==
    CASE o \in {"Get", "GetRequest", "GetToWriter", "GetRequestGroup", "GetGroup",
                "GetToWriterGroup"} -> "GET"
      [] o \in {"Post", "PostRequest", "PostToWriter", "PostRequestGroup", "PostGroup",
                "PostToWriterGroup"} -> "POST"
      [] o \in {"Head", "HeadRequest"} -> "HEAD"
      [] OTHER -> "none"

\* The body of a response, as the bytes a reader gets from it, in two chunks.
Body(resp) ==
    <<[url |-> resp.url, call |-> resp.call, chunk |-> 1],
      [url |-> resp.url, call |-> resp.call, chunk |-> 2]>>

\* io.Copy(w, response.Body): either all of the body reaches w and the copy
\* succeeds, or the copy fails after a part of the body reached w.
CopyResults(resp) ==
    {[ok |-> TRUE, bytes |-> Body(resp)]}
    \cup {[ok |-> FALSE, bytes |-> SubSeq(Body(resp), 1, k)] :
             k \in 0..(Len(Body(resp)) - 1)}

VARIABLES
    op,           \* the operation the caller invoked
    maxParallel,  \* options.MaxParallel
    retries,      \* options.Retries
    urls,         \* the urls argument
    nPost,        \* len(postData)
    mpc,          \* position of the calling goroutine
    i,            \* loop variable of the dispatch loop
    ret,          \* ret []*http.Response
    errs,         \* errs []error
    m,            \* sync.Mutex: 0 when free, else the task holding it
    t,            \* the throttler
    gpc,          \* position of each task goroutine
    got,          \* resp, err of each task: what the transport returned to it
    ncalls,       \* transport calls started, per task
    wrote,        \* slot stores performed, per task
    try,          \* attempts made so far by a single request
    response,     \* response of a single request (the named result)
    err,          \* err of a single request (the named result)
    hist,         \* what the transport returned to a single request, per call
    sleeps,       \* backoff sleeps of a single request
    failOnHTTPError, \* options.FailOnHTTPError
    content,      \* the bytes Get, Post or Head return
    closes,       \* Body.Close() calls, per transport call of a single request
    waitTime,     \* options.WaitTime
    maxWaitTime,  \* options.MaxWaitTime
    delays,       \* the durations of the backoff sleeps of a single request
    agents,       \* the agents NewAgent has returned
    heap,         \* the agentOptions objects, by address
    client,       \* the agent's client: a.client and its Timeout
    copies,       \* how io.Copy ended, per transport call of a single request
    w             \* the writers: what each io.Writer has received

config == <<op, maxParallel, retries, urls, nPost, waitTime, maxWaitTime, agents, heap>>
group == <<i, ret, errs, m, t, gpc, got, ncalls, wrote>>
req == <<try, response, err, hist, sleeps, failOnHTTPError, content, closes, copies, w, delays>>
vars == <<config, client, mpc, group, req>>

n == Len(urls)
Tasks == 1..n

\* --------------------------------------------------- options and client
\* var defaultAgentOptions = &agentOptions{...}: the values of the literal.
DefaultOptions ==
    [FailOnHTTPError |-> TRUE, Retries |-> DefaultRetries,
     Timeout |-> DefaultTimeout, WaitTime |-> DefaultWaitTime,
     MaxWaitTime |-> DefaultMaxWaitTime, MaxParallel |-> DefaultMaxParallel]

\* The address defaultAgentOptions holds: one object, allocated once.
DefaultAgentOptions == "defaultAgentOptions"

\* The agentOptions objects the package allocates.
Addresses == {DefaultAgentOptions}

\* The agent of a request or a dispatch: its options pointer.
Options == DefaultAgentOptions

\* The options of the agent of a request or a dispatch: the values its
\* With* calls have left in the object a.options points to.
AgentOptions(timeout) ==
    [FailOnHTTPError |-> failOnHTTPError, Retries |-> retries,
     Timeout |-> timeout, WaitTime |-> waitTime,
     MaxWaitTime |-> maxWaitTime, MaxParallel |-> maxParallel]

\* WithClient(&http.Client{}): a client of the caller, whose Timeout is the
\* zero value.
SuppliedClient == [is |-> "supplied", timeout |-> 0, writes |-> 0]

\* An agent NewAgent has just built: client is nil.
NilClient == [is |-> "nil", timeout |-> 0, writes |-> 0]

\* Faulty variant: only a client the agent chose itself gets the timeout.
ClientKeepsSupplied ==
    IF client.is = "nil"
      THEN [is |-> "http.DefaultClient", timeout |-> heap[Options].Timeout,
            writes |-> client.writes + 1]
      ELSE [client EXCEPT !.writes = @ + 1]

\* a.Client(): a nil client becomes http.DefaultClient, and the client's
\* Timeout is assigned from the options; writes counts these assignments.
Client ==
    [is |-> IF client.is = "nil" THEN "http.DefaultClient" ELSE client.is,
     timeout |-> heap[Options].Timeout, writes |-> client.writes + 1]

\* The client after calls Client() calls.
ClientAfter(calls) ==
    IF calls = 0 THEN NilClient
    ELSE [is |-> "http.DefaultClient", timeout |-> DefaultOptions.Timeout, writes |-> calls]

\* ----------------------------------------------------------- throttler
NoThrottler ==
    [maxWorkers |-> 0, totalJobs |-> 0, workerCount |-> 0, jobsStarted |-> 0,
     jobsCompleted |-> 0, doneChan |-> 0, errorCount |-> 0]

\* throttler.New(maxWorkers, totalJobs)
ThrottlerNew(maxWorkers, totalJobs) ==
    [maxWorkers |-> maxWorkers, totalJobs |-> totalJobs, workerCount |-> 0,
     jobsStarted |-> 0, jobsCompleted |-> 0, doneChan |-> 0, errorCount |-> 0]

\* Faulty variant: one worker more than MaxParallel.
ThrottlerArgsOffByOne == [maxWorkers |-> maxParallel + 1, totalJobs |-> n]

\* The arguments the dispatch loops hand to throttler.New.
ThrottlerArgs == [maxWorkers |-> maxParallel, totalJobs |-> n]

\* ------------------------------------------------------------ the tasks
\* Faulty variant: t.Done(err) right after the transport call, before the
\* stores.
TaskNextDoneFirst(stmt) ==
    CASE stmt = "send" -> "done"
      [] stmt = "done" -> "lock"
      [] stmt = "lock" -> "ret"
      [] stmt = "ret" -> "errs"
      [] stmt = "errs" -> "unlock"
      [] stmt = "unlock" -> "end"

\* Faulty variant: t.Done(err) between the two stores.
TaskNextDoneBetweenStores(stmt) ==
    CASE stmt = "send" -> "lock"
      [] stmt = "lock" -> "ret"
      [] stmt = "ret" -> "done"
      [] stmt = "done" -> "errs"
      [] stmt = "errs" -> "unlock"
      [] stmt = "unlock" -> "end"

\* Faulty variant: the task ends without t.Done(err).
TaskNextNoDone(stmt) ==
    CASE stmt = "send" -> "lock"
      [] stmt = "lock" -> "ret"
      [] stmt = "ret" -> "errs"
      [] stmt = "errs" -> "unlock"
      [] stmt = "unlock" -> "end"

\* The statements of a task goroutine, in program order: the statement that
\* follows stmt.
TaskNext(stmt) ==
    CASE stmt = "send" -> "lock"
      [] stmt = "lock" -> "ret"
      [] stmt = "ret" -> "errs"
      [] stmt = "errs" -> "unlock"
      [] stmt = "unlock" -> "done"
      [] stmt = "done" -> "end"

\* Faulty variant: results are stored in the order in which the tasks complete.
SlotIndexByCompletion(g) == 1 + Cardinality({h \in Tasks \ {g} : wrote[h] = 2})

\* Faulty variant: one i shared by all iterations, read when the task stores.
SlotIndexShared(g) == IF i \in 1..n THEN i ELSE n

\* The index a task writes: the i of the iteration that started it.
SlotIndex(g) == g

\* Faulty variant: only too few payloads are refused.
LengthsMismatchFewer(nUrls, nData) == nData < nUrls

\* Whether PostRequestGroup refuses to dispatch.
LengthsMismatch(nUrls, nData) == nData # nUrls

\* Faulty variant: stop dispatching once a task has failed.
LoopBreaksOnError(errorCount) == errorCount > 0

\* The dispatch loop discards what t.Throttle() returns (the number of
\* tasks that failed so far): it never leaves the loop early.
LoopBreaks(errorCount) == FALSE

MismatchError == [kind |-> "mismatch"]

\* Where the calling thread is once the dispatch has returned its results:
\* back in the caller of GetRequestGroup or PostRequestGroup, or in the group
\* operation that called one of them.
AfterDispatch(o) == IF o \in GroupOps THEN "returned" ELSE "dispatched"

InFlight == {g \in Tasks : gpc[g] = "inflight"}

\* ------------------------------------------------------------------ Init
InitGroup ==
    /\ agents = <<>>
    /\ client = NilClient
    /\ waitTime = DefaultWaitTime
    /\ maxWaitTime = DefaultMaxWaitTime
    /\ op \in GroupOps
    /\ maxParallel \in 1..MaxWorkers
    /\ retries \in {0, DefaultRetries}
    /\ \E len \in 0..MaxUrls : urls = [j \in 1..len |-> j]
    /\ nPost \in IF op = "PostRequestGroup" THEN 0..(MaxUrls + 1) ELSE {0}
    /\ mpc = "begin"
    /\ i = 0
    /\ ret = <<>>
    /\ errs = <<>>
    /\ m = 0
    /\ t = NoThrottler
    /\ gpc = [g \in Tasks |-> "idle"]
    /\ got = [g \in Tasks |-> NoOutcome]
    /\ ncalls = [g \in Tasks |-> 0]
    /\ wrote = [g \in Tasks |-> 0]
    /\ try = 0
    /\ response = NoResponse
    /\ err = NoError
    /\ hist = <<>>
    /\ sleeps = 0
    /\ delays = <<>>
    /\ failOnHTTPError = TRUE
    /\ content = <<>>
    /\ closes = <<>>
    /\ copies = <<>>
    /\ w = <<>>
    /\ heap = [a \in Addresses |-> AgentOptions(DefaultTimeout)]

\* ----------------------------------------------------- the calling thread
\* PostRequestGroup with len(postData) != len(urls): every slot fails.
PostMismatch ==
    /\ mpc = "begin"
    /\ op \in GroupOps \cup ReadGroupOps
    /\ Method(op) = "POST"
    /\ LengthsMismatch(n, nPost)
    /\ ret' = [j \in 1..n |-> NoResponse]
    /\ errs' = [j \in 1..n |-> MismatchError]
    /\ mpc' = AfterDispatch(op)
    /\ UNCHANGED <<config, client, req, i, m, t, gpc, got, ncalls, wrote>>

\* throttler.New and the two make() calls, then the loop starts.
GroupBegin ==
    /\ mpc = "begin"
    /\ op \in GroupOps \cup ReadGroupOps
    /\ Method(op) = "POST" => ~LengthsMismatch(n, nPost)
    /\ t' = ThrottlerNew(ThrottlerArgs.maxWorkers, ThrottlerArgs.totalJobs)
    /\ ret' = [j \in 1..n |-> NoResponse]
    /\ errs' = [j \in 1..n |-> NoError]
    /\ i' = 1
    /\ mpc' = "loop"
    /\ UNCHANGED <<config, client, req, m, gpc, got, ncalls, wrote>>

\* go func(url string) {...}(urls[i])
Spawn ==
    /\ mpc = "loop"
    /\ i <= n
    /\ gpc' = [gpc EXCEPT ![i] = "send"]
    /\ mpc' = "throttle"
    /\ UNCHANGED <<config, client, req, i, ret, errs, m, t, got, ncalls, wrote>>

\* t.Throttle(): count the job; with every worker taken, wait for one Done.
ThrottleEnter ==
    /\ mpc = "throttle"
    /\ LET full == t.workerCount + 1 = t.maxWorkers
       IN /\ t' = [t EXCEPT !.jobsStarted = @ + 1,
                            !.workerCount = IF full THEN @ ELSE @ + 1,
                            !.jobsCompleted = IF full THEN @ + 1 ELSE @]
          /\ mpc' = IF full THEN "await" ELSE "drain"
    /\ UNCHANGED <<config, client, req, i, ret, errs, m, gpc, got, ncalls, wrote>>

\* <-t.doneChan
ThrottleAwait ==
    /\ mpc = "await"
    /\ t.doneChan > 0
    /\ t' = [t EXCEPT !.doneChan = @ - 1]
    /\ mpc' = "drain"
    /\ UNCHANGED <<config, client, req, i, ret, errs, m, gpc, got, ncalls, wrote>>

\* After the last job was started: wait until all jobs have completed.
ThrottleDrain ==
    /\ mpc = "drain"
    /\ t.jobsStarted = t.totalJobs
    /\ t.jobsCompleted < t.totalJobs
    /\ t.doneChan > 0
    /\ t' = [t EXCEPT !.jobsCompleted = @ + 1, !.doneChan = @ - 1]
    /\ UNCHANGED <<config, client, req, mpc, i, ret, errs, m, gpc, got, ncalls, wrote>>

\* Throttle returns, and the loop goes on to the next URL.
ThrottleReturn ==
    /\ mpc = "drain"
    /\ t.jobsStarted = t.totalJobs => t.jobsCompleted >= t.totalJobs
    /\ IF LoopBreaks(t.errorCount)
         THEN i' = n + 1
         ELSE i' = i + 1
    /\ mpc' = "loop"
    /\ UNCHANGED <<config, client, req, ret, errs, m, t, gpc, got, ncalls, wrote>>

\* return ret, errs
GroupReturn ==
    /\ mpc = "loop"
    /\ i > n
    /\ mpc' = AfterDispatch(op)
    /\ UNCHANGED <<config, client, req, i, ret, errs, m, t, gpc, got, ncalls, wrote>>

\* ------------------------------------------------------------- the tasks
\* The task evaluates a.Client() and calls a.SendGetRequest / a.SendPostRequest.
TaskSend(g) ==
    /\ gpc[g] = "send"
    /\ gpc' = [gpc EXCEPT ![g] = "inflight"]
    /\ ncalls' = [ncalls EXCEPT ![g] = @ + 1]
    /\ client' = Client
    /\ UNCHANGED <<config, req, mpc, i, ret, errs, m, t, got, wrote>>

\* The transport returns: resp, err := ...
TransportReturn(g) ==
    /\ gpc[g] = "inflight"
    /\ \E r \in GroupReplies :
          got' = [got EXCEPT ![g] = Outcome(urls[g], ncalls[g], r)]
    /\ gpc' = [gpc EXCEPT ![g] = TaskNext("send")]
    /\ UNCHANGED <<config, client, req, mpc, i, ret, errs, m, t, ncalls, wrote>>

\* Faulty variant: the task goes on without waiting for the mutex.
TaskLockNoWait(g) ==
    /\ gpc[g] = "lock"
    /\ m' = g
    /\ gpc' = [gpc EXCEPT ![g] = TaskNext("lock")]
    /\ UNCHANGED <<config, client, req, mpc, i, ret, errs, t, got, ncalls, wrote>>

\* m.Lock()
TaskLock(g) ==
    /\ gpc[g] = "lock"
    /\ m = 0
    /\ m' = g
    /\ gpc' = [gpc EXCEPT ![g] = TaskNext("lock")]
    /\ UNCHANGED <<config, client, req, mpc, i, ret, errs, t, got, ncalls, wrote>>

\* ret[i] = resp
TaskStoreRet(g) ==
    /\ gpc[g] = "ret"
    /\ ret' = [ret EXCEPT ![SlotIndex(g)] = got[g].resp]
    /\ wrote' = [wrote EXCEPT ![g] = @ + 1]
    /\ gpc' = [gpc EXCEPT ![g] = TaskNext("ret")]
    /\ UNCHANGED <<config, client, req, mpc, i, errs, m, t, got, ncalls>>

\* errs[i] = err
TaskStoreErr(g) ==
    /\ gpc[g] = "errs"
    /\ errs' = [errs EXCEPT ![SlotIndex(g)] = got[g].err]
    /\ wrote' = [wrote EXCEPT ![g] = @ + 1]
    /\ gpc' = [gpc EXCEPT ![g] = TaskNext("errs")]
    /\ UNCHANGED <<config, client, req, mpc, i, ret, m, t, got, ncalls>>

\* m.Unlock()
TaskUnlock(g) ==
    /\ gpc[g] = "unlock"
    /\ m' = 0
    /\ gpc' = [gpc EXCEPT ![g] = TaskNext("unlock")]
    /\ UNCHANGED <<config, client, req, mpc, i, ret, errs, t, got, ncalls, wrote>>

\* t.Done(err): count the error and signal the throttler.
TaskDone(g) ==
    /\ gpc[g] = "done"
    /\ t' = [t EXCEPT !.doneChan = @ + 1,
                      !.errorCount = IF got[g].err # NoError THEN @ + 1 ELSE @]
    /\ gpc' = [gpc EXCEPT ![g] = TaskNext("done")]
    /\ UNCHANGED <<config, client, req, mpc, i, ret, errs, m, got, ncalls, wrote>>

NextGroup ==
    \/ PostMismatch
    \/ GroupBegin
    \/ Spawn
    \/ ThrottleEnter
    \/ ThrottleAwait
    \/ ThrottleDrain
    \/ ThrottleReturn
    \/ GroupReturn
    \/ \E g \in Tasks : TaskSend(g)
    \/ \E g \in Tasks : TransportReturn(g)
    \/ \E g \in Tasks : TaskLock(g)
    \/ \E g \in Tasks : TaskStoreRet(g)
    \/ \E g \in Tasks : TaskStoreErr(g)
    \/ \E g \in Tasks : TaskUnlock(g)
    \/ \E g \in Tasks : TaskDone(g)

SpecGroup == InitGroup /\ [][NextGroup]_vars

\* The steps of the calling goroutine.
CallerNext ==
    \/ PostMismatch
    \/ GroupBegin
    \/ Spawn
    \/ ThrottleEnter
    \/ ThrottleAwait
    \/ ThrottleDrain
    \/ ThrottleReturn
    \/ GroupReturn

\* The steps of the goroutine of task g.
TaskStep(g) ==
    /\ g \in Tasks
    /\ \/ TaskSend(g)
       \/ TaskLock(g)
       \/ TaskStoreRet(g)
       \/ TaskStoreErr(g)
       \/ TaskUnlock(g)
       \/ TaskDone(g)

\* The Go scheduler lets every goroutine that can run take its next step,
\* and every transport call returns.
FairGroup ==
    /\ WF_vars(CallerNext)
    /\ \A g \in 1..(MaxUrls + 1) : WF_vars(TaskStep(g))
    /\ \A g \in 1..(MaxUrls + 1) : WF_vars(g \in Tasks /\ TransportReturn(g))

\* The dispatches of up to MaxLiveUrls URLs.
InitGroupLive ==
    /\ InitGroup
    /\ Len(urls) <= MaxLiveUrls
    /\ retries = DefaultRetries

LiveSpecGroup == InitGroupLive /\ [][NextGroup]_vars /\ FairGroup

\* ------------------------------------------------- group dispatch: claims
\* The group call dispatched its requests (for POST: the lengths matched).
Dispatched == op \in GroupOps /\ (op = "PostRequestGroup" => nPost = n)

\* The transport has returned to task g.
TransportReturned(g) == ncalls[g] = 1 /\ gpc[g] \notin {"idle", "send", "inflight"}

\* C1: when a dispatching group call returns, ret and errs both have length
\* len(urls) and slot j holds exactly the response and the error the
\* transport returned to the call made for urls[j], whatever the order in
\* which the tasks completed.
C1_IndexAlignment ==
    (mpc = "returned" /\ Dispatched) =>
        /\ Len(ret) = n
        /\ Len(errs) = n
        /\ \A j \in 1..n :
              /\ TransportReturned(j)
              /\ ret[j] = got[j].resp
              /\ errs[j] = got[j].err
              /\ ret[j] # NoResponse => ret[j].url = urls[j]

C1_Witness ==
    /\ mpc = "returned"
    /\ Dispatched
    /\ n >= 3
    /\ maxParallel >= 2
    /\ ret[1] = NoResponse /\ errs[1] = OtherError
    /\ ret[2] # NoResponse /\ ret[2].status = StatusInternalServerError
    /\ ret[3] # NoResponse /\ ret[3].status = StatusOK /\ errs[3] = NoError

\* C2: with MaxParallel >= 1, at no moment of a group dispatch are more
\* than MaxParallel transport calls started and not yet returned.
C2_InFlightBound ==
    (op \in GroupOps /\ maxParallel >= 1) => Cardinality(InFlight) <= maxParallel

C2_Witness ==
    /\ op \in GroupOps
    /\ maxParallel >= 2
    /\ n > maxParallel
    /\ Cardinality(InFlight) = maxParallel

\* C3: a dispatching group call returns only when every task has got its
\* transport answer, stored both of its slots and run to its end, so that no
\* task stores into ret or errs after the return.
C3_Barrier ==
    (mpc = "returned" /\ Dispatched) =>
        \A g \in Tasks : ncalls[g] = 1 /\ wrote[g] = 2 /\ gpc[g] = "end"

C3_Witness ==
    /\ mpc = "returned"
    /\ Dispatched
    /\ n >= 3
    /\ maxParallel >= 2
    /\ maxParallel < n
    /\ \A g \in Tasks : wrote[g] = 2

C5_SiblingsIndependent ==
    (mpc = "returned" /\ Dispatched) =>
        \A j \in 1..n :
            /\ ncalls[j] = 1
            /\ ret[j] = got[j].resp
            /\ errs[j] = got[j].err

C5_Witness ==
    /\ mpc = "returned"
    /\ Dispatched
    /\ maxParallel = 1
    /\ n >= 3
    /\ errs[1] # NoError /\ ret[1] = NoResponse
    /\ ret[2] # NoResponse /\ ret[2].status = StatusInternalServerError
    /\ \A j \in 1..n : ncalls[j] = 1
    /\ ret[3] # NoResponse /\ ret[3].status = StatusOK /\ errs[3] = NoError

\* C6: with Retries >= 2, a task of a group dispatch whose first transport
\* answer is a server error (status 500, retryable) calls the transport a
\* second time before the group call returns.
C6_GroupTasksRetry ==
    (mpc = "returned" /\ Dispatched /\ retries >= 2) =>
        \A j \in 1..n :
            (got[j].resp # NoResponse /\ got[j].err = NoError
                /\ got[j].resp.status = StatusInternalServerError /\ got[j].resp.call = 1)
            => ncalls[j] >= 2

\* -------------------------------------------------------- configuration
\* The options of agent k: what a.options points to.
OptionsOf(k) == heap[agents[k].options]

\* The program starts: defaultAgentOptions is initialised, no agent exists.
InitConfig ==
    /\ agents = <<>>
    /\ heap = [a \in Addresses |-> DefaultOptions]
    /\ client = NilClient
    /\ waitTime = DefaultWaitTime
    /\ maxWaitTime = DefaultMaxWaitTime
    /\ op = "GetRequestGroup"
    /\ maxParallel = DefaultMaxParallel
    /\ retries = DefaultRetries
    /\ urls = <<>>
    /\ nPost = 0
    /\ mpc = "config"
    /\ i = 0
    /\ ret = <<>>
    /\ errs = <<>>
    /\ m = 0
    /\ t = NoThrottler
    /\ gpc = <<>>
    /\ got = <<>>
    /\ ncalls = <<>>
    /\ wrote = <<>>
    /\ try = 0
    /\ response = NoResponse
    /\ err = NoError
    /\ hist = <<>>
    /\ sleeps = 0
    /\ delays = <<>>
    /\ failOnHTTPError = TRUE
    /\ content = <<>>
    /\ closes = <<>>
    /\ copies = <<>>
    /\ w = <<>>

\* NewAgent(): options is the defaultAgentOptions pointer. configured records
\* whether a With* method has been called on the agent.
NewAgent ==
    /\ mpc = "config"
    /\ Len(agents) < MaxAgents
    /\ agents' = Append(agents, [options |-> DefaultAgentOptions, configured |-> FALSE])
    /\ UNCHANGED <<heap, client, op, maxParallel, retries, urls, nPost, waitTime,
                   maxWaitTime, mpc, group, req>>

\* a.options.<field> = value, on agent k.
SetOption(k, field, value) ==
    /\ mpc = "config"
    /\ heap' = [heap EXCEPT ![agents[k].options] = [@ EXCEPT ![field] = value]]
    /\ agents' = [agents EXCEPT ![k].configured = TRUE]
    /\ UNCHANGED <<client, op, maxParallel, retries, urls, nPost, waitTime,
                   maxWaitTime, mpc, group, req>>

WithTimeout(k) == \E d \in 1..MaxWait : SetOption(k, "Timeout", d)

WithRetries(k) == \E r \in 0..MaxRetries : SetOption(k, "Retries", r)

WithWaitTime(k) == \E d \in 1..MaxWait : SetOption(k, "WaitTime", d)

WithMaxWaitTime(k) == \E d \in 1..MaxWait : SetOption(k, "MaxWaitTime", d)

WithFailOnHTTPError(k) == \E flag \in BOOLEAN : SetOption(k, "FailOnHTTPError", flag)

\* a.options.MaxParallel = uint(workers): no check of workers. The arguments
\* drawn here are not negative, and uint(workers) is then workers.
WithMaxParallel(k) == \E workers \in 0..MaxWorkers : SetOption(k, "MaxParallel", workers)

\* Agent k starts a group dispatch: int(a.options.MaxParallel) is what
\* throttler.New is about to receive.
DispatchStarts(k) ==
    /\ mpc = "config"
    /\ maxParallel' = OptionsOf(k).MaxParallel
    /\ mpc' = "begin"
    /\ UNCHANGED <<agents, heap, client, op, retries, urls, nPost, waitTime,
                   maxWaitTime, group, req>>

NextConfig ==
    \/ NewAgent
    \/ \E k \in DOMAIN agents :
          \/ WithTimeout(k)
          \/ WithRetries(k)
          \/ WithWaitTime(k)
          \/ WithMaxWaitTime(k)
          \/ WithFailOnHTTPError(k)
          \/ WithMaxParallel(k)
          \/ DispatchStarts(k)

SpecConfig == InitConfig /\ [][NextConfig]_vars

\* ------------------------------------------------------ single requests
\* The crash of a nil dereference.
Panic == [kind |-> "panic"]

RetryError(status) == [kind |-> "retry", status |-> status]

\* Faulty variant: a URL error ends the attempts instead of asking for one more.
ShouldRetryURLErrorTerminal(resp, e) ==
    IF e # NoError /\ e = URLError THEN NoError
    ELSE IF resp = NoResponse THEN Panic
    ELSE IF resp.status = StatusTooManyRequests THEN RetryError(resp.status)
    ELSE IF resp.status = 0
            \/ (resp.status >= StatusInternalServerError
                /\ resp.status # StatusNotImplemented)
         THEN RetryError(resp.status)
    ELSE NoError

\* Faulty variant: 429 is not asked to be retried.
ShouldRetryOnlyServerErrors(resp, e) ==
    IF e # NoError /\ e = URLError THEN e
    ELSE IF resp = NoResponse THEN Panic
    ELSE IF resp.status = 0
            \/ (resp.status >= StatusInternalServerError
                /\ resp.status # StatusNotImplemented)
         THEN RetryError(resp.status)
    ELSE NoError

\* Faulty variant: 501 is retried like every other status >= 500.
ShouldRetryNotImplemented(resp, e) ==
    IF e # NoError /\ e = URLError THEN e
    ELSE IF resp = NoResponse THEN Panic
    ELSE IF resp.status = StatusTooManyRequests THEN RetryError(resp.status)
    ELSE IF resp.status = 0 \/ resp.status >= StatusInternalServerError
         THEN RetryError(resp.status)
    ELSE NoError

\* shouldRetry(resp, err): the error that asks retry.Do for another attempt,
\* NoError to stop, Panic where resp.StatusCode is read from a nil resp.
ShouldRetry(resp, e) ==
    IF e # NoError /\ e = URLError THEN e
    ELSE IF resp = NoResponse THEN Panic
    ELSE IF resp.status = StatusTooManyRequests THEN RetryError(resp.status)
    ELSE IF resp.status = 0
            \/ (resp.status >= StatusInternalServerError
                /\ resp.status # StatusNotImplemented)
         THEN RetryError(resp.status)
    ELSE NoError

\* Faulty variant: Retries = 0 goes through retry.Do as well.
NoRetryLoopNever(r) == FALSE

\* Faulty variant: a single attempt bypasses retry.Do as well.
NoRetryLoopAtMostOne(r) == r <= 1

\* retryRequest calls do() directly, without retry.Do, when Retries is 0.
NoRetryLoop(r) == r = 0

\* Faulty variant: one attempt too few.
AttemptsOneLess == retries - 1

\* retry.Attempts(a.options.Retries); 0 attempts make retry.Do retry until
\* the function succeeds.
Attempts == retries

\* HeadRequest leaves its loop: err == nil || try >= a.options.Retries
HeadStops(e, tr, r) == e = NoError \/ tr >= r

\* What retry.Do returns when the attempts are used up: every attempt's error.
AttemptsError ==
    [kind |-> "retry.Error",
     log |-> [k \in 1..Len(hist) |-> ShouldRetry(hist[k].resp, hist[k].err)]]

\* Where a finished *Request method continues: in Get, Post or Head when one
\* of them called it, else in the caller of the agent.
ReturnTo(o) == IF o \in WrapperOps THEN "wrapper" ELSE "returned"

\* fmt.Errorf("<what>: %w", cause)
Wrapped(what, cause) == [kind |-> what, cause |-> cause]

\* errors.Unwrap, repeated: the innermost error of a chain of %w wrappings.
RECURSIVE Root(_)
Root(e) == IF "cause" \in DOMAIN e THEN Root(e.cause) ELSE e

ReadError == [kind |-> "reading response"]

HTTPError(resp) == [kind |-> "HTTP error", status |-> resp.status, url |-> resp.url]

\* Faulty variant: the status is checked before the outcome of the copy.
ReadResponseStatusFirst(resp, copied) ==
    IF (resp.status < StatusOK \/ resp.status >= StatusMultipleChoices)
       /\ failOnHTTPError
      THEN HTTPError(resp)
    ELSE IF ~copied THEN ReadError
    ELSE NoError

\* Faulty variant: the status check does not consult FailOnHTTPError.
ReadResponseStrict(resp, copied) ==
    IF ~copied THEN ReadError
    ELSE IF resp.status < StatusOK \/ resp.status >= StatusMultipleChoices
         THEN HTTPError(resp)
    ELSE NoError

\* readResponse(response, w), given whether io.Copy succeeds: the error it
\* returns.
ReadResponse(resp, copied) ==
    IF ~copied THEN ReadError
    ELSE IF (resp.status < StatusOK \/ resp.status >= StatusMultipleChoices)
            /\ failOnHTTPError
         THEN HTTPError(resp)
    ELSE NoError

\* Faulty variant: the body is closed only where readResponse returns nil.
ReadResponseClosesOnSuccess(resp, copied) ==
    IF ReadResponse(resp, copied) = NoError THEN 1 ELSE 0

\* readResponse(response, w): the Body.Close() calls it makes on the path
\* taken: the one of `defer response.Body.Close()`.
ReadResponseCloses(resp, copied) == 1

\* No run of the agent makes more transport calls than this.
CallCap == MaxRetries + 2

InitRequest ==
    /\ agents = <<>>
    /\ waitTime \in 1..MaxWait
    /\ maxWaitTime \in {MaxWait - 1, DefaultMaxWaitTime}
    /\ op \in SingleOps \cup WriterOps
    /\ maxParallel = DefaultMaxParallel
    /\ retries \in 0..MaxRetries
    /\ urls = <<1>>
    /\ nPost = IF Method(op) = "POST" THEN 1 ELSE 0
    /\ mpc = "call"
    /\ i = 0
    /\ ret = <<>>
    /\ errs = <<>>
    /\ m = 0
    /\ t = NoThrottler
    /\ gpc = [g \in Tasks |-> "idle"]
    /\ got = [g \in Tasks |-> NoOutcome]
    /\ ncalls = [g \in Tasks |-> 0]
    /\ wrote = [g \in Tasks |-> 0]
    /\ try = 0
    /\ response = NoResponse
    /\ err = NoError
    /\ hist = <<>>
    /\ sleeps = 0
    /\ delays = <<>>
    /\ failOnHTTPError \in BOOLEAN
    /\ content = <<>>
    /\ closes = <<>>
    /\ copies = <<>>
    /\ w = IF op \in WriterOps THEN << <<>> >> ELSE <<>>
    /\ \E timeout \in 1..MaxWait : heap = [a \in Addresses |-> AgentOptions(timeout)]
    /\ client \in {NilClient, SuppliedClient}

\* do(): one call of SendGetRequest, SendPostRequest or SendHeadRequest;
\* response, err = ...
RequestSend ==
    /\ mpc = "call"
    /\ op \in SingleOps \cup WriterOps
    /\ Len(hist) < CallCap
    /\ \E r \in Replies :
          LET o == Outcome(urls[1], Len(hist) + 1, r)
          IN /\ hist' = Append(hist, o)
             /\ response' = o.resp
             /\ err' = o.err
    /\ closes' = Append(closes, 0)
    /\ copies' = Append(copies, "none")
    /\ mpc' = IF op \in WriterOps THEN "writer" ELSE "sent"
    /\ client' = Client
    /\ UNCHANGED <<config, group, try, sleeps, failOnHTTPError, content, w, delays>>

\* retryRequest with Retries == 0: return do()
DirectReturn ==
    /\ mpc = "sent"
    /\ Method(op) \in {"GET", "POST"}
    /\ NoRetryLoop(retries)
    /\ mpc' = ReturnTo(op)
    /\ UNCHANGED <<config, client, group, req>>

\* One pass of retry.Do over the function handed to it by retryRequest.
RetryCheck ==
    /\ mpc = "sent"
    /\ Method(op) \in {"GET", "POST"}
    /\ ~NoRetryLoop(retries)
    /\ LET e == ShouldRetry(response, err)
       IN CASE e = Panic ->
                 /\ mpc' = "panic"
                 /\ UNCHANGED <<try, err, delays>>
            [] e = NoError ->
                 \* retry.Do returns nil, which retryRequest assigns to err
                 /\ err' = NoError
                 /\ mpc' = ReturnTo(op)
                 /\ UNCHANGED try
            [] e \notin {Panic, NoError} /\ Attempts # 0 /\ try = Attempts - 1 ->
                 \* the last attempt: retry.Do returns the errors of all attempts
                 /\ err' = AttemptsError
                 /\ mpc' = ReturnTo(op)
                 /\ UNCHANGED try
            [] OTHER ->
                 /\ try' = try + 1
                 /\ mpc' = "sleep"
                 /\ UNCHANGED err
    /\ UNCHANGED <<config, client, group, response, hist, sleeps, failOnHTTPError, content, closes, copies, w, delays>>

\* HeadRequest: try++ and the test that ends its loop.
HeadCheck ==
    /\ mpc = "sent"
    /\ Method(op) = "HEAD"
    /\ try' = try + 1
    /\ mpc' = IF HeadStops(err, try + 1, retries) THEN ReturnTo(op) ELSE "sleep"
    /\ UNCHANGED <<config, client, group, response, err, hist, sleeps, failOnHTTPError, content, closes, copies, w, delays>>

\* Head's threshold: `if waitTime > 60`.
HeadWaitLimit == 60

\* HeadRequest: the seconds slept after attempt number tr failed: 2^tr, and
\* MaxWaitTime once that exceeds 60.
HeadDelay(tr) == IF 2^tr > HeadWaitLimit THEN maxWaitTime ELSE 2^tr

\* retry.Do with Delay(WaitTime), MaxDelay(MaxWaitTime) and BackOffDelay: the
\* delay before retry number nth (0 for the first): WaitTime doubled nth
\* times, and MaxWaitTime when that is set and exceeded.
RetryDelay(nth) ==
    LET d == waitTime * 2^nth
    IN IF maxWaitTime > 0 /\ d > maxWaitTime THEN maxWaitTime ELSE d

\* The delay before the next attempt (retry.Do's timer, time.Sleep).
BackoffSleep ==
    /\ mpc = "sleep"
    /\ sleeps' = sleeps + 1
    /\ delays' = Append(delays, IF Method(op) = "HEAD" THEN HeadDelay(try)
                                                      ELSE RetryDelay(try - 1))
    /\ mpc' = "call"
    /\ UNCHANGED <<config, client, group, try, response, err, hist, failOnHTTPError, content, closes, copies, w>>

\* Get, Post, Head: the request failed: return nil and the wrapped error.
WrapperError ==
    /\ mpc = "wrapper"
    /\ err # NoError
    /\ err' = Wrapped("getting request", err)
    /\ mpc' = "returned"
    /\ UNCHANGED <<config, client, group, try, response, hist, sleeps, failOnHTTPError, content, closes, copies, w, delays>>

\* Get, Post, Head: no error and no response: defer response.Body.Close()
\* reads the Body of a nil response.
WrapperCrash ==
    /\ mpc = "wrapper"
    /\ err = NoError
    /\ response = NoResponse
    /\ mpc' = "panic"
    /\ UNCHANGED <<config, client, group, req>>

\* Get, Post, Head: readResponseToByteArray(response), then the deferred
\* response.Body.Close() of the wrapper itself.
WrapperRead ==
    /\ mpc = "wrapper"
    /\ err = NoError
    /\ response # NoResponse
    /\ \E c \in CopyResults(response) :
          LET e == ReadResponse(response, c.ok)
          IN /\ err' = IF e = NoError THEN NoError ELSE Wrapped("reading array buffer", e)
             /\ content' = IF e = NoError THEN c.bytes ELSE <<>>
             /\ copies' = [copies EXCEPT ![response.call] = IF c.ok THEN "ok" ELSE "failed"]
             /\ closes' = [closes EXCEPT
                              ![response.call] = @ + ReadResponseCloses(response, c.ok) + 1]
    /\ mpc' = "returned"
    /\ UNCHANGED <<config, client, group, try, response, hist, sleeps, failOnHTTPError, w, delays>>


\* Faulty variant: a failed call is made again while attempts are left.
WriterErrorRetries ==
    /\ mpc = "writer"
    /\ err # NoError
    /\ IF Len(hist) < retries
         THEN mpc' = "call" /\ err' = err
         ELSE mpc' = "returned" /\ err' = Wrapped("sending request", err)
    /\ UNCHANGED <<config, client, group, try, response, hist, sleeps, failOnHTTPError, content, closes, copies, w, delays>>

\* GetToWriter, PostToWriter: the request failed: return the wrapped error.
WriterError ==
    /\ mpc = "writer"
    /\ err # NoError
    /\ err' = Wrapped("sending request", err)
    /\ mpc' = "returned"
    /\ UNCHANGED <<config, client, group, try, response, hist, sleeps, failOnHTTPError, content, closes, copies, w, delays>>

\* GetToWriter, PostToWriter: no error and no response: readResponse reads
\* the Body of a nil response in its defer statement.
WriterCrash ==
    /\ mpc = "writer"
    /\ err = NoError
    /\ response = NoResponse
    /\ mpc' = "panic"
    /\ UNCHANGED <<config, client, group, req>>

\* GetToWriter, PostToWriter: return a.readResponse(resp, w)
WriterRead ==
    /\ mpc = "writer"
    /\ err = NoError
    /\ response # NoResponse
    /\ \E c \in CopyResults(response) :
          /\ err' = ReadResponse(response, c.ok)
          /\ w' = [w EXCEPT ![1] = @ \o c.bytes]
          /\ copies' = [copies EXCEPT ![response.call] = IF c.ok THEN "ok" ELSE "failed"]
          /\ closes' = [closes EXCEPT
                           ![response.call] = @ + ReadResponseCloses(response, c.ok)]
    /\ mpc' = "returned"
    /\ UNCHANGED <<config, client, group, try, response, hist, sleeps, failOnHTTPError, content, delays>>

NextRequest ==
    \/ RequestSend
    \/ DirectReturn
    \/ RetryCheck
    \/ HeadCheck
    \/ BackoffSleep
    \/ WrapperError
    \/ WrapperCrash
    \/ WrapperRead
    \/ WriterError
    \/ WriterCrash
    \/ WriterRead

SpecRequest == InitRequest /\ [][NextRequest]_vars

\* ------------------------------------- reading the responses of a group
\* GetGroup, PostGroup, GetToWriterGroup and PostToWriterGroup first call
\* GetRequestGroup or PostRequestGroup and then walk over the responses.
\* The walk starts from what the dispatch returned: for every index the pair
\* the transport returned for its URL, or, for a POST with mismatching
\* lengths, no response and the mismatch error at every index.
NoWriterError == [kind |-> "no writer defined"]

\* Faulty variant: with too few payloads only the URLs without a payload fail.
DispatchResultsMissingOnly(o, len, nData) ==
    {[j \in 1..len |-> IF Method(o) = "POST" /\ j > nData
                         THEN [resp |-> NoResponse, err |-> MismatchError]
                         ELSE Outcome(j, 1, f[j])] : f \in [1..len -> GroupReplies]}

\* The results GetRequestGroup or PostRequestGroup can return for len URLs.
DispatchResults(o, len, nData) ==
    IF Method(o) = "POST" /\ LengthsMismatch(len, nData)
      THEN {[j \in 1..len |-> [resp |-> NoResponse, err |-> MismatchError]]}
      ELSE {[j \in 1..len |-> Outcome(j, 1, f[j])] : f \in [1..len -> GroupReplies]}

InitRead ==
    /\ agents = <<>>
    /\ waitTime = DefaultWaitTime
    /\ maxWaitTime = DefaultMaxWaitTime
    /\ op \in ReadGroupOps
    /\ maxParallel = DefaultMaxParallel
    /\ retries = DefaultRetries
    /\ \E len \in 0..MaxUrls :
          /\ urls = [j \in 1..len |-> j]
          /\ nPost \in IF Method(op) = "POST"
                          THEN {len, len + 1} \cup ({len - 1} \cap Nat)
                          ELSE {0}
          /\ got \in DispatchResults(op, len, nPost)
    /\ ret = [j \in Tasks |-> got[j].resp]
    /\ errs = [j \in Tasks |-> got[j].err]
    /\ mpc = "read"
    /\ i = 1
    /\ m = 0
    /\ t = NoThrottler
    /\ gpc = [g \in Tasks |-> "end"]
    /\ ncalls = [g \in Tasks |-> IF got[g] = [resp |-> NoResponse, err |-> MismatchError]
                                     THEN 0 ELSE 1]
    /\ client = ClientAfter(Cardinality({g \in Tasks : ncalls[g] = 1}))
    /\ wrote = [g \in Tasks |-> 2]
    /\ try = 0
    /\ response = NoResponse
    /\ err = NoError
    /\ hist = <<>>
    /\ sleeps = 0
    /\ delays = <<>>
    /\ failOnHTTPError \in BOOLEAN
    /\ content = [j \in Tasks |-> <<>>]
    /\ closes = [j \in Tasks |-> 0]
    /\ copies = [j \in Tasks |-> "none"]
    /\ \E nw \in IF op \in WriterGroupOps THEN 0..MaxWriters ELSE {0} :
          w = [k \in 1..nw |-> <<>>]
    /\ heap = [a \in Addresses |-> AgentOptions(DefaultTimeout)]

\* GetToWriterGroup, PostToWriterGroup called with a single writer, from
\* their first statement on: the dispatch, then the walk over the responses.
InitSingleWriter ==
    /\ agents = <<>>
    /\ client = NilClient
    /\ waitTime = DefaultWaitTime
    /\ maxWaitTime = DefaultMaxWaitTime
    /\ op \in WriterGroupOps
    /\ maxParallel \in 1..MaxWorkers
    /\ retries = DefaultRetries
    /\ \E len \in 0..MaxUrls :
          /\ urls = [j \in 1..len |-> j]
          /\ nPost \in IF Method(op) = "POST" THEN {len, len + 1} ELSE {0}
    /\ mpc = "begin"
    /\ i = 0
    /\ ret = <<>>
    /\ errs = <<>>
    /\ m = 0
    /\ t = NoThrottler
    /\ gpc = [g \in Tasks |-> "idle"]
    /\ got = [g \in Tasks |-> NoOutcome]
    /\ ncalls = [g \in Tasks |-> 0]
    /\ wrote = [g \in Tasks |-> 0]
    /\ try = 0
    /\ response = NoResponse
    /\ err = NoError
    /\ hist = <<>>
    /\ sleeps = 0
    /\ delays = <<>>
    /\ failOnHTTPError \in BOOLEAN
    /\ content = <<>>
    /\ closes = <<>>
    /\ copies = <<>>
    /\ w = << <<>> >>
    /\ heap = [a \in Addresses |-> AgentOptions(DefaultTimeout)]

\* resps, errs := a.GetRequestGroup(urls) has returned; the walk starts.
ReadBegin ==
    /\ mpc = "dispatched"
    /\ op \in ReadGroupOps
    /\ i' = 1
    /\ content' = [j \in Tasks |-> <<>>]
    /\ closes' = [j \in Tasks |-> 0]
    /\ copies' = [j \in Tasks |-> "none"]
    /\ mpc' = "read"
    /\ UNCHANGED <<config, client, ret, errs, m, t, gpc, got, ncalls, wrote,
                   try, response, err, hist, sleeps, failOnHTTPError, w, delays>>

\* Faulty variant: an index past the writers falls back to the last writer.
WriterForClamped(idx, nw) ==
    IF nw = 1 THEN 1 ELSE IF idx > nw THEN nw ELSE idx

\* The writer response number idx (counted from 1) is copied to, 0 when the
\* request has no writer defined: w[0] for a single writer, else w[i] unless
\* i >= len(w).
WriterFor(idx, nw) ==
    IF nw = 1 THEN 1 ELSE IF idx - 1 >= nw THEN 0 ELSE idx

\* Faulty variant: the writer of the index is looked up before the response
\* is tested for nil.
ReadSkipAfterWriterLookup ==
    /\ mpc = "read"
    /\ op \in ReadGroupOps
    /\ i <= n
    /\ ret[i] = NoResponse
    /\ errs' = IF op \in WriterGroupOps /\ WriterFor(i, Len(w)) \notin 1..Len(w)
                 THEN [errs EXCEPT ![i] = Wrapped("writing group response", NoWriterError)]
                 ELSE errs
    /\ i' = i + 1
    /\ UNCHANGED <<config, client, mpc, req, ret, m, t, gpc, got, ncalls, wrote>>

\* for i, r := range resps: r == nil, nothing to read.
ReadSkip ==
    /\ mpc = "read"
    /\ op \in ReadGroupOps
    /\ i <= n
    /\ ret[i] = NoResponse
    /\ i' = i + 1
    /\ UNCHANGED <<config, client, mpc, req, ret, errs, m, t, gpc, got, ncalls, wrote>>

\* Faulty variant: the first response that cannot be read ends the walk.
ReadToArrayStopsOnError ==
    /\ mpc = "read"
    /\ op \in ArrayGroupOps
    /\ i <= n
    /\ ret[i] # NoResponse
    /\ \E c \in CopyResults(ret[i]) :
          LET e == ReadResponse(ret[i], c.ok)
          IN /\ errs' = IF e = NoError THEN errs
                        ELSE [errs EXCEPT ![i] =
                                Wrapped("reading group response",
                                        Wrapped("reading array buffer", e))]
             /\ content' = IF e = NoError THEN [content EXCEPT ![i] = c.bytes]
                           ELSE content
             /\ copies' = [copies EXCEPT ![i] = IF c.ok THEN "ok" ELSE "failed"]
             /\ closes' = [closes EXCEPT ![i] = @ + ReadResponseCloses(ret[i], c.ok)]
             /\ i' = IF e = NoError THEN i + 1 ELSE n + 1
    /\ UNCHANGED <<config, client, mpc, ret, m, t, gpc, got, ncalls, wrote,
                   try, response, err, hist, sleeps, failOnHTTPError, w, delays>>

\* GetGroup, PostGroup: d, err := a.readResponseToByteArray(r)
ReadToArray ==
    /\ mpc = "read"
    /\ op \in ArrayGroupOps
    /\ i <= n
    /\ ret[i] # NoResponse
    /\ \E c \in CopyResults(ret[i]) :
          LET e == ReadResponse(ret[i], c.ok)
          IN /\ errs' = IF e = NoError THEN errs
                        ELSE [errs EXCEPT ![i] =
                                Wrapped("reading group response",
                                        Wrapped("reading array buffer", e))]
             /\ content' = IF e = NoError THEN [content EXCEPT ![i] = c.bytes]
                           ELSE content
             /\ copies' = [copies EXCEPT ![i] = IF c.ok THEN "ok" ELSE "failed"]
             /\ closes' = [closes EXCEPT ![i] = @ + ReadResponseCloses(ret[i], c.ok)]
    /\ i' = i + 1
    /\ UNCHANGED <<config, client, mpc, ret, m, t, gpc, got, ncalls, wrote,
                   try, response, err, hist, sleeps, failOnHTTPError, w, delays>>

\* Faulty variant: a response without a writer is passed over silently.
RouteNoWriterSilent ==
    /\ mpc = "read"
    /\ op \in WriterGroupOps
    /\ i <= n
    /\ ret[i] # NoResponse
    /\ WriterFor(i, Len(w)) \notin 1..Len(w)
    /\ i' = i + 1
    /\ UNCHANGED <<config, client, mpc, req, ret, errs, m, t, gpc, got, ncalls, wrote>>

\* GetToWriterGroup, PostToWriterGroup: the request has no writer defined.
RouteNoWriter ==
    /\ mpc = "read"
    /\ op \in WriterGroupOps
    /\ i <= n
    /\ ret[i] # NoResponse
    /\ WriterFor(i, Len(w)) \notin 1..Len(w)
    /\ errs' = [errs EXCEPT ![i] = Wrapped("writing group response", NoWriterError)]
    /\ i' = i + 1
    /\ UNCHANGED <<config, client, mpc, req, ret, m, t, gpc, got, ncalls, wrote>>

\* GetToWriterGroup, PostToWriterGroup: err = a.readResponse(r, w[...])
RouteToWriter ==
    /\ mpc = "read"
    /\ op \in WriterGroupOps
    /\ i <= n
    /\ ret[i] # NoResponse
    /\ WriterFor(i, Len(w)) \in 1..Len(w)
    /\ \E c \in CopyResults(ret[i]) :
          LET e == ReadResponse(ret[i], c.ok)
          IN /\ errs' = IF e = NoError THEN errs
                        ELSE [errs EXCEPT ![i] = Wrapped("writing group response", e)]
             /\ w' = [w EXCEPT ![WriterFor(i, Len(w))] = @ \o c.bytes]
             /\ copies' = [copies EXCEPT ![i] = IF c.ok THEN "ok" ELSE "failed"]
             /\ closes' = [closes EXCEPT ![i] = @ + ReadResponseCloses(ret[i], c.ok)]
    /\ i' = i + 1
    /\ UNCHANGED <<config, client, mpc, ret, m, t, gpc, got, ncalls, wrote,
                   try, response, err, hist, sleeps, failOnHTTPError, content, delays>>

\* return c, errs / return errs, and the deferred closeHTTPResponseGroup(resps).
ReadReturn ==
    /\ mpc = "read"
    /\ op \in ReadGroupOps
    /\ i > n
    /\ closes' = [j \in Tasks |-> IF ret[j] = NoResponse THEN closes[j] ELSE closes[j] + 1]
    /\ mpc' = "returned"
    /\ UNCHANGED <<config, client, group, try, response, err, hist, sleeps, failOnHTTPError,
                   content, copies, w, delays>>

NextRead ==
    \/ ReadSkip
    \/ ReadToArray
    \/ RouteNoWriter
    \/ RouteToWriter
    \/ ReadReturn

SpecRead == InitRead /\ [][NextRead]_vars

NextSingleWriter ==
    \/ NextGroup
    \/ ReadBegin
    \/ ReadSkip
    \/ RouteToWriter
    \/ ReadReturn

SpecSingleWriter == InitSingleWriter /\ [][NextSingleWriter]_vars

\* Every operation of the agent that reads a response body: the single
\* requests and the group operations after their dispatch.
InitAgent == InitRequest \/ InitRead

NextAgent == NextRequest \/ NextRead

SpecAgent == InitAgent /\ [][NextAgent]_vars

\* ------------------------------------------------ single requests: claims
\* The first answer of the transport is a response with this status and no error.
FirstStatus(s) ==
    /\ Len(hist) >= 1
    /\ hist[1].resp # NoResponse
    /\ hist[1].resp.status = s
    /\ hist[1].err = NoError

\* C7: with Retries = 0, GetRequest, PostRequest and HeadRequest, and Get,
\* Post and Head which call them, each make exactly one transport call and
\* never sleep, whatever the transport answers.
C7_NoRetriesOneCall ==
    (op \in SingleOps /\ retries = 0) =>
        /\ Len(hist) <= 1
        /\ sleeps = 0
        /\ mpc \in {"wrapper", "returned"} => Len(hist) = 1

C7_Witness ==
    /\ op = "Get"
    /\ retries = 0
    /\ mpc = "returned"
    /\ Len(hist) = 1
    /\ hist[1].resp # NoResponse
    /\ hist[1].resp.status = StatusInternalServerError
    /\ hist[1].err = NoError
    /\ sleeps = 0

\* C8: with Retries = r >= 1, whatever the transport answers, a single
\* request makes at least one and at most r transport calls and then
\* returns to its caller (it does not crash).
C8_BoundedAttemptsThenReturn ==
    (op \in RequestOps /\ retries >= 1) =>
        /\ Len(hist) <= retries
        /\ mpc # "panic"
        /\ mpc = "returned" => Len(hist) >= 1

\* C9: with Retries >= 2, when the transport answers 500 to the first call
\* GetRequest and PostRequest call it again, and when the second answer is
\* 200 they return that response with a nil error after exactly two
\* transport calls and one backoff sleep.
C9_SucceedsOnRetry ==
    (op \in {"GetRequest", "PostRequest"} /\ retries >= 2 /\ mpc = "returned"
        /\ FirstStatus(StatusInternalServerError)) =>
        /\ Len(hist) >= 2
        /\ (hist[2].resp # NoResponse /\ hist[2].resp.status = StatusOK
              /\ hist[2].err = NoError) =>
              /\ Len(hist) = 2
              /\ sleeps = 1
              /\ response = hist[2].resp
              /\ err = NoError

C9_Witness ==
    /\ op = "PostRequest"
    /\ retries >= 2
    /\ mpc = "returned"
    /\ FirstStatus(StatusInternalServerError)
    /\ Len(hist) = 2
    /\ response # NoResponse
    /\ response.status = StatusOK
    /\ response.call = 2
    /\ sleeps = 1

\* C10: for each of GetRequest, PostRequest and HeadRequest, with attempts
\* left (Retries >= 2 and one call made), a response with status 429 or with
\* status >= 500 other than 501 makes the request call the transport again.
C10_SameClassification ==
    (op \in RequestOps /\ retries >= 2 /\ mpc = "returned"
        /\ (FirstStatus(StatusTooManyRequests) \/ FirstStatus(StatusInternalServerError)))
    => Len(hist) >= 2

\* The statuses shouldRetry lets through without a retry although they are
\* not a success: 3xx, 4xx other than 429, and 501.
TerminalStatuses == {StatusMultipleChoices, StatusNotFound, StatusNotImplemented}

\* C11: when the transport answers the first call with a response whose
\* status is 501, or 3xx/4xx other than 429, and no error, then GetRequest,
\* PostRequest and HeadRequest make exactly one transport call, never sleep,
\* and return that response with a nil error, whatever Retries is.
C11_TerminalStatusOneCall ==
    (op \in RequestOps /\ \E s \in TerminalStatuses : FirstStatus(s)) =>
        /\ Len(hist) = 1
        /\ sleeps = 0
        /\ mpc # "panic"
        /\ mpc = "returned" => response = hist[1].resp /\ err = NoError

C11_Witness ==
    /\ op = "GetRequest"
    /\ retries = MaxRetries
    /\ mpc = "returned"
    /\ FirstStatus(StatusNotImplemented)
    /\ Len(hist) = 1
    /\ response = hist[1].resp
    /\ err = NoError

\* The transport answered call k with a URL error and no response.
URLFailure(k) == hist[k].resp = NoResponse /\ hist[k].err = URLError

Max(a, b) == IF a >= b THEN a ELSE b

\* C12 as stated: a transport failure reported as a URL error is returned
\* after a single attempt, without retry and without backoff sleep, whatever
\* Retries is.
C12_PermanentFailureNotRetried ==
    (op \in RequestOps /\ Len(hist) >= 1 /\ URLFailure(1)) =>
        /\ Len(hist) = 1
        /\ sleeps = 0

\* C12 as amended: a URL error is retried.  When the transport answers every
\* call with a URL error, GetRequest, PostRequest and HeadRequest return after
\* max(1, Retries) transport calls with a backoff sleep between consecutive
\* calls, with no response and a non-nil error; a single attempt without
\* sleep happens only for Retries <= 1.
C12_URLErrorRetried ==
    (op \in RequestOps /\ mpc = "returned"
        /\ \A k \in 1..Len(hist) : URLFailure(k)) =>
        /\ Len(hist) = Max(1, retries)
        /\ sleeps = Len(hist) - 1
        /\ response = NoResponse
        /\ err # NoError

C12_Witness ==
    /\ op = "GetRequest"
    /\ retries = 2
    /\ mpc = "returned"
    /\ Len(hist) = 2
    /\ URLFailure(1)
    /\ URLFailure(2)
    /\ sleeps = 1
    /\ err # NoError

\* What the last transport call of the request returned.
Last == hist[Len(hist)]

RetryableAnswer(k) ==
    /\ hist[k].resp # NoResponse
    /\ hist[k].resp.status \in {StatusInternalServerError, StatusTooManyRequests}
    /\ hist[k].err = NoError

\* C14: with Retries >= 1, when every attempt of GetRequest or PostRequest
\* is answered with a retryable status (500 or 429), the request does not
\* crash, and returns after Retries attempts with a non-nil error together
\* with the non-nil response of the last attempt.
C14_ExhaustedReturnsErrorAndResponse ==
    (op \in {"GetRequest", "PostRequest"} /\ retries >= 1
        /\ \A k \in 1..Len(hist) : RetryableAnswer(k)) =>
        /\ mpc # "panic"
        /\ Len(hist) <= retries
        /\ mpc = "returned" =>
              /\ Len(hist) = retries
              /\ err # NoError
              /\ response # NoResponse
              /\ response = Last.resp

C14_Witness ==
    /\ op = "GetRequest"
    /\ retries = MaxRetries
    /\ mpc = "returned"
    /\ Len(hist) = MaxRetries
    /\ \A k \in 1..Len(hist) :
          RetryableAnswer(k) /\ hist[k].resp.status = StatusTooManyRequests
    /\ err # NoError
    /\ response # NoResponse

\* C15: when the last transport call of a single-request operation (Get,
\* Post, Head, GetRequest, PostRequest, HeadRequest) returned a non-nil
\* error, the operation returns a non-nil error, for every Retries, for URL
\* errors and other errors, with or without a response.
C15_TransportErrorSurfaces ==
    (op \in SingleOps /\ mpc = "returned" /\ Last.err # NoError) => err # NoError

\* C16: the transport answers Get with status 404 and a body that is read
\* without failure: with FailOnHTTPError = false Get returns the bytes of
\* the body and a nil error; with FailOnHTTPError = true it returns a
\* non-nil error and no bytes.
C16_FailOnHTTPErrorDecides ==
    (op = "Get" /\ mpc = "returned" /\ FirstStatus(StatusNotFound)
        /\ copies[1] = "ok") =>
        IF failOnHTTPError
          THEN err # NoError /\ content = <<>>
          ELSE err = NoError /\ content = Body(hist[1].resp)

C16_Witness ==
    /\ op = "Get"
    /\ mpc = "returned"
    /\ retries = MaxRetries
    /\ FirstStatus(StatusNotFound)
    /\ copies[1] = "ok"
    /\ ~failOnHTTPError
    /\ err = NoError
    /\ content = Body(hist[1].resp)

\* The transport answered call k with a response whose status is outside
\* [200, 300), and no error.
ErrorStatusAnswer(k) ==
    /\ hist[k].resp # NoResponse
    /\ hist[k].err = NoError
    /\ (hist[k].resp.status < StatusOK \/ hist[k].resp.status >= StatusMultipleChoices)

\* C17: with FailOnHTTPError = false, when every answer of the transport is
\* a response with a status outside [200, 300) (429 and 5xx included) and no
\* error, and no copy of a body fails, then Get, Post and Head return the
\* body of the last response with a nil error, for every Retries.
C17_NoErrorOnStatusAlone ==
    (op \in WrapperOps /\ ~failOnHTTPError /\ mpc = "returned"
        /\ \A k \in 1..Len(hist) : ErrorStatusAnswer(k) /\ copies[k] # "failed") =>
        /\ err = NoError
        /\ content = Body(Last.resp)

\* C18: in every operation that reads a response through readResponse (Get,
\* Post, Head, GetToWriter, PostToWriter and the four group operations), when
\* the copy of a response body fails, the error reported for that response
\* is the read error, whether FailOnHTTPError is set or not and whatever the
\* status is, and it is not the HTTP-status error.
C18_CopyFailureIsReadError ==
    /\ (op \in WrapperOps \cup WriterOps /\ mpc = "returned") =>
          \A k \in 1..Len(copies) :
              copies[k] = "failed" =>
                  /\ Root(err) = ReadError
                  /\ Root(err) # HTTPError(hist[k].resp)
    /\ op \in ReadGroupOps =>
          \A j \in 1..n :
              copies[j] = "failed" =>
                  /\ Root(errs[j]) = ReadError
                  /\ Root(errs[j]) # HTTPError(ret[j])

C18_Witness ==
    /\ op = "GetToWriterGroup"
    /\ mpc = "returned"
    /\ n >= 2
    /\ Len(w) >= 2
    /\ failOnHTTPError
    /\ ret[2] # NoResponse
    /\ ret[2].status = StatusInternalServerError
    /\ copies[2] = "failed"
    /\ Root(errs[2]) = ReadError
    /\ copies[1] = "ok"

\* C19: once readResponse has run on a response, that response's body has
\* been closed, on each of its paths: the copy succeeded, the copy failed,
\* the HTTP-status error and the status warning.
C19_ReadResponseCloses ==
    \A k \in 1..Len(copies) : copies[k] # "none" => closes[k] >= 1

C19_Witness ==
    /\ op = "GetToWriterGroup"
    /\ mpc = "read"
    /\ n = 3
    /\ i = 4
    /\ failOnHTTPError
    /\ \A j \in 1..3 : ret[j] # NoResponse
    /\ ret[1].status = StatusOK /\ copies[1] = "ok" /\ errs[1] = NoError
    /\ ret[2].status = StatusInternalServerError /\ copies[2] = "ok"
    /\ Root(errs[2]) = HTTPError(ret[2])
    /\ copies[3] = "failed" /\ Root(errs[3]) = ReadError
    /\ closes = <<1, 1, 1>>

\* C20: when Get, Post, Head, GetToWriter, PostToWriter or one of the group
\* operations returns, the body of every response the transport produced
\* during the call has been closed: the responses of attempts that were
\* retried, the last response of exhausted attempts and a response that came
\* together with an error included.
C20_AllBodiesClosed ==
    mpc = "returned" =>
        /\ op \in WrapperOps \cup WriterOps =>
              \A k \in 1..Len(hist) : hist[k].resp # NoResponse => closes[k] >= 1
        /\ op \in ReadGroupOps =>
              \A j \in 1..n : got[j].resp # NoResponse => closes[j] >= 1

\* ------------------------------------------------ group operations: claims
\* The bodies of the responses the transport returned for the first k URLs,
\* one after the other in the order of the URLs.
RECURSIVE Bodies(_)
Bodies(k) ==
    IF k = 0 THEN <<>>
    ELSE Bodies(k - 1) \o (IF got[k].resp = NoResponse THEN <<>> ELSE Body(got[k].resp))

\* C21: GetToWriterGroup and PostToWriterGroup with exactly one writer: what
\* the writer has received is at every moment in the order of the URLs, and
\* when the operation returns and no copy failed it is the concatenation of
\* the response bodies in the order of the URLs, whatever the order in which
\* the concurrent requests completed.
C21_SingleWriterInputOrder ==
    (op \in WriterGroupOps /\ Len(w) = 1) =>
        /\ \A a, b \in 1..Len(w[1]) :
              a < b => \/ w[1][a].url < w[1][b].url
                       \/ w[1][a].url = w[1][b].url /\ w[1][a].chunk < w[1][b].chunk
        /\ (mpc = "returned" /\ \A j \in 1..n : copies[j] # "failed") =>
              w[1] = Bodies(n)

C21_Witness ==
    /\ op = "GetToWriterGroup"
    /\ mpc = "returned"
    /\ Len(w) = 1
    /\ n = 3
    /\ maxParallel >= 2
    /\ \A j \in 1..n : got[j].resp # NoResponse /\ copies[j] = "ok"
    /\ w[1] = Body(got[1].resp) \o Body(got[2].resp) \o Body(got[3].resp)

\* What the walk leaves in error slot j when it has read response j: the
\* error of the dispatch when readResponse returned nil, else the error of
\* readResponse, wrapped.
ErrAfterRead(j, what) ==
    LET e == ReadResponse(got[j].resp, copies[j] = "ok")
    IN IF e = NoError THEN got[j].err ELSE Wrapped(what, e)

\* C22: GetToWriterGroup and PostToWriterGroup with two or more writers, at
\* their return: writer k has received the body of response k and nothing
\* else (nothing when there is no response k); every index past the writers
\* that has a response has a 'no writer defined' error and was not read; the
\* indices that have a writer were read and carry the outcome of their own
\* read.
C22_MultiWriterRouting ==
    (op \in WriterGroupOps /\ Len(w) >= 2 /\ mpc = "returned") =>
        /\ \A k \in 1..Len(w) :
              IF k <= n /\ got[k].resp # NoResponse
                THEN /\ \E c \in CopyResults(got[k].resp) :
                            w[k] = c.bytes /\ (c.ok <=> copies[k] = "ok")
                     /\ copies[k] # "none"
                     /\ errs[k] = ErrAfterRead(k, "writing group response")
                ELSE w[k] = <<>>
        /\ \A j \in 1..n :
              (j > Len(w) /\ got[j].resp # NoResponse) =>
                  /\ errs[j] = Wrapped("writing group response", NoWriterError)
                  /\ copies[j] = "none"

C22_Witness ==
    /\ op = "PostToWriterGroup"
    /\ mpc = "returned"
    /\ n = 3
    /\ Len(w) = 2
    /\ \A j \in 1..n : got[j].resp # NoResponse /\ got[j].err = NoError
    /\ w[1] = Body(got[1].resp)
    /\ w[2] = Body(got[2].resp)
    /\ errs[1] = NoError
    /\ errs[2] = NoError
    /\ Root(errs[3]) = NoWriterError

\* C23: in GetToWriterGroup and PostToWriterGroup, for every index that has
\* no response after the dispatch, no writer receives anything for that
\* index, nothing is read or closed for it, and its error slot stays what the
\* dispatch set it to, also when the index has no writer.
C23_AbsentResponseUntouched ==
    (op \in WriterGroupOps /\ mpc \in {"read", "returned"}) =>
        \A j \in 1..n :
            got[j].resp = NoResponse =>
                /\ errs[j] = got[j].err
                /\ copies[j] = "none"
                /\ closes[j] = 0
                /\ \A k \in 1..Len(w) : \A a \in 1..Len(w[k]) : w[k][a].url # urls[j]

C23_Witness ==
    /\ op = "GetToWriterGroup"
    /\ mpc = "returned"
    /\ n = 3
    /\ Len(w) = 2
    /\ got[1].resp # NoResponse
    /\ w[1] = Body(got[1].resp)
    /\ got[2].resp = NoResponse
    /\ w[2] = <<>>
    /\ got[3].resp = NoResponse
    /\ got[3].err = OtherError
    /\ errs[3] = OtherError

\* errors.Is(e, x): x is e or one of the errors e wraps.
RECURSIVE Reports(_, _)
Reports(e, x) == e = x \/ ("cause" \in DOMAIN e /\ Reports(e.cause, x))

\* C24: when GetGroup, PostGroup, GetToWriterGroup or PostToWriterGroup
\* returns, every error the dispatch recorded at an index is still reported
\* at that index of the returned errors, whatever routing and reading did at
\* that index.
C24_DispatchErrorKept ==
    (op \in ReadGroupOps /\ mpc = "returned") =>
        \A j \in 1..n : got[j].err # NoError => Reports(errs[j], got[j].err)

\* C25: the sleep before retry number n (0 for the first) of a Get, Post or
\* Head request lasts min(initialBackoff * 2^n, maxBackoff): it doubles from
\* the configured initial wait and never exceeds the configured maximum.
C25_BackoffDoublesFromWaitTime ==
    op \in SingleOps =>
        \A k \in 1..Len(delays) :
            delays[k] = IF waitTime * 2^(k - 1) > maxWaitTime
                        THEN maxWaitTime ELSE waitTime * 2^(k - 1)

\* C26: whatever configuration calls were made, WithMaxParallel with 0
\* included, maxParallel is at least 1 when a group dispatch starts.
C26_MaxParallelAtLeastOne == mpc = "begin" => maxParallel >= 1

\* C27: a task of a group dispatch writes only its own result and error slot:
\* no step assigns the agent's client or the client's timeout while the
\* request of another task is in flight.
C27_TasksWriteOnlyOwnSlots ==
    [][(op \in GroupOps /\ client' # client) => InFlight = {}]_vars

\* C28: an agent on which no With* method has been called has the default
\* options, whatever was called on the other agents.
C28_OtherAgentsKeepDefaults ==
    \A k \in DOMAIN agents : ~agents[k].configured => OptionsOf(k) = DefaultOptions

\* PostGroup or PostToWriterGroup has returned from a call with fewer
\* payloads than URLs.
FewerPayloads ==
    /\ op \in ReadGroupOps
    /\ Method(op) = "POST"
    /\ nPost < n
    /\ mpc = "returned"

GroupContent(j) ==
    IF got[j].resp = NoResponse \/ ReadResponse(got[j].resp, copies[j] = "ok") # NoError
      THEN <<>>
      ELSE Body(got[j].resp)

GroupError(j) ==
    IF got[j].resp = NoResponse \/ ReadResponse(got[j].resp, copies[j] = "ok") = NoError
      THEN got[j].err
      ELSE Wrapped("reading group response",
                   Wrapped("reading array buffer",
                           ReadResponse(got[j].resp, copies[j] = "ok")))

\* C30: in GetGroup and PostGroup a response whose copy fails, or whose
\* status is an error status while failOnHTTPError is set, gives an error and
\* no content at its own index; the content and the error of every index
\* depend on that index alone; both sequences are as long as urls.
C30_PerIndexOutcome ==
    (op \in ArrayGroupOps /\ mpc = "returned") =>
        /\ Len(content) = n
        /\ Len(errs) = n
        /\ \A j \in 1..n :
              /\ content[j] = GroupContent(j)
              /\ errs[j] = GroupError(j)
              /\ (got[j].resp # NoResponse /\ copies[j] = "failed") =>
                    content[j] = <<>> /\ Root(errs[j]) = ReadError
              /\ (got[j].resp # NoResponse /\ copies[j] = "ok" /\ failOnHTTPError
                    /\ got[j].resp.status >= StatusMultipleChoices) =>
                    content[j] = <<>> /\ Root(errs[j]) = HTTPError(got[j].resp)

C30_Witness ==
    /\ op = "GetGroup"
    /\ mpc = "returned"
    /\ failOnHTTPError
    /\ n = 3
    /\ got[1].resp # NoResponse
    /\ copies[1] = "failed"
    /\ Root(errs[1]) = ReadError
    /\ content[1] = <<>>
    /\ got[2].resp # NoResponse
    /\ got[2].resp.status = StatusInternalServerError
    /\ copies[2] = "ok"
    /\ Root(errs[2]) = HTTPError(got[2].resp)
    /\ content[2] = <<>>
    /\ got[3] = Outcome(3, 1, Answer(StatusOK, NoError))
    /\ errs[3] = NoError
    /\ content[3] = Body(got[3].resp)

\* ------------------------------------------- dispatch and agent: claims
\* C31: a completion signal reaches the throttler (t.Done, which frees the
\* task's place among the workers) only from a task that has stored both its
\* response slot and its error slot.
C31_DoneAfterBothStores ==
    [][(op \in GroupOps /\ t'.doneChan > t.doneChan) =>
          \E g \in Tasks :
              /\ gpc[g] = "done"
              /\ gpc'[g] # "done"
              /\ wrote[g] = 2
              /\ ret[SlotIndex(g)] = got[g].resp
              /\ errs[SlotIndex(g)] = got[g].err]_vars

C31_Witness ==
    /\ op \in GroupOps
    /\ n >= 3
    /\ maxParallel < n
    /\ t.doneChan = 1
    /\ \E g, h \in Tasks :
          /\ gpc[g] = "end"
          /\ wrote[g] = 2
          /\ gpc[h] = "inflight"

\* The tasks that are between m.Lock() and m.Unlock(): about to store a
\* slot, or about to unlock.
Storing == {g \in Tasks : gpc[g] \in {"ret", "errs", "unlock"}}

\* C32: in a group dispatch slot j of ret and of errs is stored exactly once,
\* by the task of index j: it is untouched until that task stores it and
\* holds that task's result afterwards; and at most one task at a time is
\* inside the section that stores.
C32_SlotsWrittenOnceExclusively ==
    (Dispatched /\ mpc # "begin") =>
        /\ Cardinality(Storing) <= 1
        /\ \A g \in Storing : m = g
        /\ \A g \in Tasks :
              /\ wrote[g] \in 0..2
              /\ wrote[g] = 0 => ret[g] = NoResponse /\ errs[g] = NoError
              /\ wrote[g] = 1 => ret[g] = got[g].resp /\ errs[g] = NoError
              /\ wrote[g] = 2 => ret[g] = got[g].resp /\ errs[g] = got[g].err
              /\ gpc[g] \in {"done", "end"} => wrote[g] = 2
              /\ gpc[g] \in {"idle", "send", "inflight", "lock", "ret"} => wrote[g] = 0

C32_Witness ==
    /\ Dispatched
    /\ n >= 3
    /\ \E g, h, k \in Tasks :
          /\ gpc[g] = "errs" /\ wrote[g] = 1 /\ got[g].resp # NoResponse
          /\ gpc[h] = "lock" /\ got[h].err # NoError
          /\ gpc[k] = "end" /\ wrote[k] = 2

\* C33: with maxParallel >= 1 and a transport that answers every call, every
\* group dispatch returns, for every number of URLs and of workers: the
\* calling goroutine and the tasks do not end up waiting for each other.
C33_DispatchReturns ==
    (op \in GroupOps /\ maxParallel >= 1) ~> (mpc = "returned")

C33_Witness ==
    /\ op \in GroupOps
    /\ Dispatched
    /\ mpc = "returned"
    /\ n = MaxLiveUrls
    /\ maxParallel = 1
    /\ \A g \in Tasks : gpc[g] = "end"

\* C34: GetToWriter and PostToWriter call the transport once, whatever
\* Retries is, and never sleep; an error of the transport is returned,
\* wrapped, after that one call, and nothing is written.
C34_WritersCallOnce ==
    op \in WriterOps =>
        /\ Len(hist) <= 1
        /\ sleeps = 0
        /\ mpc \in {"returned", "panic"} => Len(hist) = 1
        /\ (mpc = "returned" /\ hist[1].err # NoError) =>
              /\ err = Wrapped("sending request", hist[1].err)
              /\ w = << <<>> >>

C34_Witness ==
    /\ op = "GetToWriter"
    /\ retries = MaxRetries
    /\ mpc = "returned"
    /\ Len(hist) = 1
    /\ hist[1].err = URLError
    /\ Root(err) = URLError

\* The writer has received every chunk of the body of resp.
WholeBodyIn(sink, resp) ==
    \A c \in 1..Len(Body(resp)) : \E a \in 1..Len(sink) : sink[a] = Body(resp)[c]

\* C35: when readResponse returns an HTTP-status error, the whole body of
\* that response has been written to the writer: in GetToWriter and
\* PostToWriter, and in the group operations with a single writer, whose
\* writer then holds the bodies of the failing responses too, in the order
\* of the URLs.
C35_HTTPErrorAfterFullCopy ==
    /\ (op \in WriterOps /\ mpc = "returned" /\ Len(hist) = 1
          /\ hist[1].resp # NoResponse /\ err = HTTPError(hist[1].resp)) =>
            w[1] = Body(hist[1].resp)
    /\ (op \in WriterGroupOps /\ Len(w) = 1 /\ mpc = "returned") =>
          /\ \A j \in 1..n :
                (got[j].resp # NoResponse /\ Root(errs[j]) = HTTPError(got[j].resp)) =>
                    WholeBodyIn(w[1], got[j].resp)
          /\ \A a, b \in 1..Len(w[1]) : a < b => w[1][a].url <= w[1][b].url

C35_Witness ==
    /\ op = "GetToWriterGroup"
    /\ mpc = "returned"
    /\ failOnHTTPError
    /\ Len(w) = 1
    /\ n = 3
    /\ got[1] = Outcome(1, 1, Answer(StatusOK, NoError))
    /\ got[2] = Outcome(2, 1, Answer(StatusInternalServerError, NoError))
    /\ got[3] = Outcome(3, 1, Answer(StatusOK, NoError))
    /\ errs[1] = NoError
    /\ Root(errs[2]) = HTTPError(got[2].resp)
    /\ w[1] = Body(got[1].resp) \o Body(got[2].resp) \o Body(got[3].resp)

\* C36: GetToWriterGroup and PostToWriterGroup with an empty writer list run
\* to their return: every index with a response gets the "no writer defined"
\* error and its body is not copied, and every index without a response
\* keeps the error of the dispatch.
C36_EmptyWriterList ==
    (op \in WriterGroupOps /\ Len(w) = 0) =>
        /\ mpc # "panic"
        /\ mpc = "returned" =>
              /\ Len(errs) = n
              /\ \A j \in 1..n :
                    /\ copies[j] = "none"
                    /\ IF got[j].resp # NoResponse
                         THEN errs[j] = Wrapped("writing group response", NoWriterError)
                         ELSE errs[j] = got[j].err

C36_Witness ==
    /\ op = "PostToWriterGroup"
    /\ Len(w) = 0
    /\ mpc = "returned"
    /\ n = 3
    /\ nPost = 3
    /\ got[1].resp # NoResponse
    /\ Root(errs[1]) = NoWriterError
    /\ got[2].resp = NoResponse
    /\ errs[2] = OtherError
    /\ got[3].resp # NoResponse
    /\ Root(errs[3]) = NoWriterError

\* C37: with Retries >= 1, GetRequest and PostRequest return a pair for
\* every pair the transport can answer with, an absent response included:
\* no step reads a field of a response that is nil.
C37_NoNilResponseRead ==
    (op \in {"GetRequest", "PostRequest"} /\ retries >= 1) =>
        mpc # "panic"

\* C38: every transport call of a request is made with a client whose
\* Timeout is the agent's configured timeout, also when the client came from
\* WithClient with another timeout: each call assigns it anew.
C38_ClientTimeoutIsConfigured ==
    (op \in SingleOps \cup WriterOps /\ Len(hist) >= 1) =>
        /\ client.is # "nil"
        /\ client.timeout = heap[Options].Timeout
        /\ client.writes = Len(hist)

C38_Witness ==
    /\ op = "GetRequest"
    /\ mpc = "returned"
    /\ Len(hist) = 2
    /\ heap[Options].Timeout # DefaultTimeout
    /\ client = [is |-> "supplied", timeout |-> heap[Options].Timeout, writes |-> 2]

\* C39: no operation of the agent calls Close more than once on the body of
\* a response.
C39_ClosedAtMostOnce ==
    \A k \in 1..Len(closes) : closes[k] <= 1

====
